---- MODULE Spec2Model ----
(***************************************************************************)
(* Model of the resume/job match webhook (src/app.py): one POST /match     *)
(* request handled by match(), with the file system, the resume host and   *)
(* the model provider as nondeterministic collaborators.                   *)
(*                                                                         *)
(* Python values are tagged records [t, v]; Python strings are TLA+        *)
(* strings, so slicing, prefix and substring tests are computed on the     *)
(* characters.                                                             *)
(***************************************************************************)
EXTENDS Integers, Sequences, FiniteSets, TLC

VARIABLES
    OPENAI_KEY,      \* process configuration: None or the credential
    pc,              \* position of the handler
    request_data,    \* raw bytes of the inbound request body (JSON text or not)
    body_read,       \* TRUE once request.get_json has been called
    body,            \* parsed request body
    candidate_id, candidate_name, resume_url, job_id, job_text, required_skills,
    resume_text,     \* local variable resume_text of match()
    io_log,          \* the I/O operations performed so far, in order
    local_file,      \* the state the local path was found in (or NoResponse)
    get_response,    \* what the resume host answered to the GET (or NoResponse)
    post_payload,    \* the JSON payload of the outbound POST (or None)
    post_response,   \* what the provider answered to the POST (or NoResponse)
    match_json,      \* local variable match_json of match()
    response         \* the HTTP response of the request (or NoResponse)

vars == <<OPENAI_KEY, pc, request_data, body_read, body, candidate_id,
          candidate_name, resume_url, job_id, job_text, required_skills,
          resume_text, io_log, local_file, get_response, post_payload,
          post_response, match_json, response>>

(***************************************************************************)
(* Python values                                                           *)
(***************************************************************************)
None == [t |-> "none", v |-> <<>>]
Str(s) == [t |-> "str", v |-> s]
Num(n) == [t |-> "num", v |-> n]
List(s) == [t |-> "list", v |-> s]
Dict(f) == [t |-> "dict", v |-> f]
EmptyDict == Dict(<<>>)

\* type(v).__name__
TypeName(x) ==
    CASE x.t = "none" -> "NoneType"
      [] x.t = "str"  -> "str"
      [] x.t = "num"  -> "int"
      [] x.t = "list" -> "list"
      [] x.t = "dict" -> "dict"

\* bool(v)
Truthy(x) ==
    CASE x.t = "none" -> FALSE
      [] x.t = "str"  -> Len(x.v) > 0
      [] x.t = "num"  -> x.v # 0
      [] x.t = "list" -> Len(x.v) > 0
      [] x.t = "dict" -> DOMAIN x.v # {}

\* Outcome of evaluating an expression: a value or a raised exception.
Ok(x) == [ok |-> TRUE, val |-> x]
Raise(type, msg) == [ok |-> FALSE, exc |-> [type |-> type, msg |-> msg]]

\* obj.get(key, default): only dict has the attribute.
DictGet(obj, key, default) ==
    IF obj.t = "dict"
    THEN Ok(IF key \in DOMAIN obj.v THEN obj.v[key] ELSE default)
    ELSE Raise("AttributeError",
               "'" \o TypeName(obj) \o "' object has no attribute 'get'")

\* obj[key] with a str key: a dict lookup; a list or str wants an index.
Item(obj, key) ==
    CASE obj.t = "dict" ->
            IF key \in DOMAIN obj.v THEN Ok(obj.v[key])
            ELSE Raise("KeyError", "'" \o key \o "'")
      [] obj.t = "list" ->
            Raise("TypeError", "list indices must be integers or slices, not str")
      [] obj.t = "str" ->
            Raise("TypeError", "string indices must be integers")
      [] OTHER ->
            Raise("TypeError", "'" \o TypeName(obj) \o "' object is not subscriptable")

\* obj[i] with an int index i >= 0.
Index(obj, i) ==
    CASE obj.t = "list" ->
            IF i + 1 \in 1..Len(obj.v) THEN Ok(obj.v[i + 1])
            ELSE Raise("IndexError", "list index out of range")
      [] obj.t = "str" ->
            IF i + 1 \in 1..Len(obj.v) THEN Ok(Str(SubSeq(obj.v, i + 1, i + 1)))
            ELSE Raise("IndexError", "string index out of range")
      [] obj.t = "dict" ->
            Raise("KeyError", "0")
      [] OTHER ->
            Raise("TypeError", "'" \o TypeName(obj) \o "' object is not subscriptable")

\* Mutant of StartsWith: `p in s` where s.startswith(p) is meant.
StartsWithAnywhere(s, p) ==
    \E i \in 1..(Len(s) - Len(p) + 1) : SubSeq(s, i, i + Len(p) - 1) = p

\* s.startswith(p)
StartsWith(s, p) == Len(s) >= Len(p) /\ SubSeq(s, 1, Len(p)) = p

\* sub in s
Contains(s, sub) ==
    \E i \in 1..(Len(s) - Len(sub) + 1) : SubSeq(s, i, i + Len(sub) - 1) = sub

\* Mutant of Slice: the text is embedded whole.
SliceNoLimit(s, n) == s

\* s[:n]
Slice(s, n) == SubSeq(s, 1, IF Len(s) < n THEN Len(s) ELSE n)

(***************************************************************************)
(* JSON text.  Dump writes a value as json.dumps does (strings of the      *)
(* model hold no character that needs escaping); Loads is its inverse on   *)
(* the documents of the model and fails on every other text.               *)
(***************************************************************************)
Digit(d) == SubSeq("0123456789", d + 1, d + 1)

RECURSIVE Digits(_)
Digits(n) == IF n < 10 THEN Digit(n) ELSE Digits(n \div 10) \o Digit(n % 10)

\* Keys of a dict in the order the documents of the model list them.
KeyOrder == <<"candidate_id", "candidate_name", "resume_url", "job_id", "job_text",
              "required_skills", "name", "summary", "match", "final_score",
              "matched_skills">>

RECURSIVE Dump(_), DumpItems(_), DumpMembers(_, _)
DumpItems(s) ==
    IF Len(s) = 0 THEN ""
    ELSE IF Len(s) = 1 THEN Dump(s[1])
    ELSE Dump(s[1]) \o ", " \o DumpItems(Tail(s))
DumpMembers(f, keys) ==
    IF Len(keys) = 0 THEN ""
    ELSE IF Len(keys) = 1 THEN "\"" \o keys[1] \o "\": " \o Dump(f[keys[1]])
    ELSE "\"" \o keys[1] \o "\": " \o Dump(f[keys[1]]) \o ", "
         \o DumpMembers(f, Tail(keys))
Dump(x) ==
    CASE x.t = "none" -> "null"
      [] x.t = "str"  -> "\"" \o x.v \o "\""
      [] x.t = "num"  -> Digits(x.v)
      [] x.t = "list" -> "[" \o DumpItems(x.v) \o "]"
      [] x.t = "dict" ->
            "{" \o DumpMembers(x.v, SelectSeq(KeyOrder, LAMBDA k : k \in DOMAIN x.v))
                \o "}"

\* json.loads(text) over the documents `docs`.
Loads(text, docs) ==
    IF \E d \in docs : Dump(d) = text
    THEN Ok(CHOOSE d \in docs : Dump(d) = text)
    ELSE Raise("JSONDecodeError", "Expecting value: line 1 column 1 (char 0)")

\* repr(v) and str(v), as an f-string field formats a value (None, strings
\* without quotes, numbers and lists of them).
RECURSIVE PyRepr(_), ReprItems(_)
ReprItems(s) ==
    IF Len(s) = 0 THEN ""
    ELSE IF Len(s) = 1 THEN PyRepr(s[1])
    ELSE PyRepr(s[1]) \o ", " \o ReprItems(Tail(s))
PyRepr(x) ==
    CASE x.t = "none" -> "None"
      [] x.t = "str"  -> "'" \o x.v \o "'"
      [] x.t = "num"  -> Digits(x.v)
      [] x.t = "list" -> "[" \o ReprItems(x.v) \o "]"
PyStr(x) == IF x.t = "str" THEN x.v ELSE PyRepr(x)

(***************************************************************************)
(* Bounds and inputs                                                       *)
(***************************************************************************)
ResumeLimit == 4000      \* (resume_text or '')[:4000]
JobLimit == 2000         \* (job_text or '')[:2000]
MaxExtra == 2            \* texts run up to MaxExtra characters past a limit

\* A text of n characters; the character at position i is the digit i % 10.
RECURSIVE Chars(_, _)
Chars(lo, hi) ==
    IF lo > hi THEN ""
    ELSE IF lo = hi THEN Digit(lo % 10)
    ELSE Chars(lo, (lo + hi) \div 2) \o Chars((lo + hi) \div 2 + 1, hi)
Text(n) == Chars(1, n)

ResumeTexts == {"", "Python developer, 5 years"}
                 \cup {Text(n) : n \in (ResumeLimit - 1)..(ResumeLimit + MaxExtra)}
JobTexts == {"Need Python"}
                 \cup {Text(n) : n \in (JobLimit - 1)..(JobLimit + MaxExtra)}

\* A dict with the key when the value is given, without it when it is Absent.
Absent == [t |-> "absent", v |-> <<>>]
Opt(key, x) == IF x = Absent THEN <<>> ELSE (key :> x)

ResumeUrls == {Absent, None, Num(5), Str(""), Str("file:///mnt/data/resume.txt"),
               Str("ftp://host/http/cv"), Str("/mnt/dat"), Str("htt"),
               Str("/mnt/data/resume.txt"), Str("http://host/cv"),
               Str("https://host/mnt/data/cv")}
JobTextValues == {Absent, None, Num(7)} \cup {Str(s) : s \in JobTexts}

\* Request bodies that are JSON objects: the optional identification fields are
\* all given or all left out.
ObjectBodies ==
    { Dict(Opt("candidate_id", IF full THEN Str("C1") ELSE Absent)
           @@ Opt("candidate_name", IF full THEN Str("Ann") ELSE Absent)
           @@ Opt("resume_url", u)
           @@ Opt("job_id", IF full THEN Str("J7") ELSE Absent)
           @@ Opt("job_text", j)
           @@ Opt("required_skills",
                  IF full THEN List(<<Str("Python"), Str("SQL")>>) ELSE Absent))
      : full \in BOOLEAN, u \in ResumeUrls, j \in JobTextValues }
BodyDocs == ObjectBodies \cup {None, Num(5), Str("C1"), List(<<>>)}
RequestData == {Dump(d) : d \in BodyDocs} \cup {"", "{candidate_id: C1"}

\* JSON values the model's message content can encode.
WellFormed ==
    { Dict(("summary" :> Str("Good fit"))
           @@ ("match" :> Dict(("final_score" :> Num(81))
                               @@ ("matched_skills" :> List(<<Str("Python")>>))))),
      Dict(("candidate_id" :> Str("X9")) @@ ("name" :> Str("Ann"))
           @@ ("summary" :> Str("Weak fit"))
           @@ ("match" :> Dict(("final_score" :> Num(0))
                               @@ ("matched_skills" :> List(<<>>))))) }
ModelDocs ==
    WellFormed \cup
    { EmptyDict,
      Dict("summary" :> Str("Good fit")),
      Dict(("summary" :> Str("Good fit")) @@ ("match" :> EmptyDict)),
      Dict("match" :> Dict("final_score" :> Num(81))),
      Dict("match" :> Dict("matched_skills" :> List(<<Str("SQL")>>))),
      Dict(("summary" :> Str("Good fit")) @@ ("match" :> None)),
      Dict("match" :> Num(81)),
      Dict("match" :> Str("Good fit")),
      Dict("match" :> List(<<Str("Python")>>)),
      None, Num(81), Str("Good fit"), List(<<Str("Python")>>) }
ModelTexts == {Dump(d) : d \in ModelDocs}
                 \cup {"", "Sorry, I cannot help with that.",
                       "{\"summary\": \"Good fit\", \"match\": {\"final_sc"}

(***************************************************************************)
(* The collaborators: what the file system, the resume host and the model  *)
(* provider may answer.                                                    *)
(***************************************************************************)
NoResponse == [kind |-> "none"]

\* A byte sequence that is not valid UTF-8.
BadBytes == "<ff>"

\* A local path: missing, unreadable, or a file given as its byte chunks.
FileStates ==
    {[kind |-> "missing", chunks |-> <<>>], [kind |-> "unreadable", chunks |-> <<>>]}
    \cup {[kind |-> "file", chunks |-> c] :
            c \in {<<t>> : t \in ResumeTexts}
                  \cup {<<BadBytes>>, <<"Python ", BadBytes, "developer">>}}

ContentTypes == {Absent, Str("text/plain; charset=utf-8"), Str("application/json"),
                 Str("application/pdf"), Str("TEXT/HTML")}

\* requests.get: an exception, or a final response.  A 3xx response is one
\* requests does not follow (it carries no Location header).
GetOutcomes ==
    {[kind |-> "exception", type |-> "ConnectionError", msg |-> "connection refused"],
     [kind |-> "exception", type |-> "ReadTimeout", msg |-> "read timed out"]}
    \cup {[kind |-> "response", status |-> st, headers |-> Dict(Opt("Content-Type", c)),
           text |-> t] :
            st \in {200, 206, 300}, c \in ContentTypes,
            t \in {"", "Python developer, 5 years", Text(ResumeLimit + 1)}}
    \cup {[kind |-> "response", status |-> st,
           headers |-> Dict("Content-Type" :> Str("text/plain; charset=utf-8")),
           text |-> "error page"] : st \in {404, 503}}

\* The chat-completion envelope around a message content.
Envelope(content) ==
    Dict("choices" :> List(<<Dict("message" :> Dict("content" :> content))>>))
Envelopes ==
    {Envelope(Str(t)) : t \in ModelTexts}
    \cup {Envelope(None), Envelope(Num(81)),
          EmptyDict, Dict("choices" :> List(<<>>)), Dict("choices" :> None),
          Dict("choices" :> List(<<EmptyDict>>)),
          Dict("choices" :> List(<<Dict("message" :> EmptyDict)>>)),
          Dict("choices" :> List(<<Dict("message" :> Str("Good fit"))>>)),
          List(<<>>), None}

\* requests.post: an exception, or a final response whose body r.json()
\* decodes to `json` or fails to decode.
PostOutcomes ==
    {[kind |-> "exception", type |-> "ConnectionError", msg |-> "connection refused"],
     [kind |-> "exception", type |-> "ReadTimeout", msg |-> "read timed out"]}
    \cup {[kind |-> "response", status |-> 200, json |-> Ok(e)] : e \in Envelopes}
    \cup {[kind |-> "response", status |-> 300, json |-> Ok(Envelope(Str(Dump(d))))] :
            d \in WellFormed}
    \cup {[kind |-> "response", status |-> st,
           json |-> Raise("JSONDecodeError", "Expecting value: line 1 column 1 (char 0)")] :
            st \in {200, 300}}
    \cup {[kind |-> "response", status |-> st,
           json |-> Ok(Dict("error" :> Str("unavailable")))] : st \in {401, 429, 500}}

\* Response.raise_for_status(): HTTPError for a 4xx or 5xx status.
raise_for_status(r) ==
    IF 400 <= r.status /\ r.status < 500
    THEN Raise("HTTPError", Digits(r.status) \o " Client Error")
    ELSE IF 500 <= r.status /\ r.status < 600
    THEN Raise("HTTPError", Digits(r.status) \o " Server Error")
    ELSE Ok(None)

(***************************************************************************)
(* The functions of app.py                                                 *)
(***************************************************************************)
MODEL == "gpt-4o-mini"
LOCAL_PREFIX == "/mnt/data"
HTTP_PREFIX == "http"
FALLBACK_TEXT ==
    "(Full resume text unavailable. Proceeding with job_text and limited info.)"

\* bytes.decode("utf-8", errors="ignore"): undecodable bytes are dropped.
RECURSIVE Decode(_)
Decode(chunks) ==
    IF Len(chunks) = 0 THEN ""
    ELSE (IF Head(chunks) = BadBytes THEN "" ELSE Head(chunks)) \o Decode(Tail(chunks))

\* read_local_file_text(path) when the path is in state `file`.
read_local_file_text(file) ==
    CASE file.kind = "missing"    -> None
      [] file.kind = "unreadable" -> None
      [] file.kind = "file"       -> Str(Decode(file.chunks))

\* Mutant of fetch_url_text: the body is returned whatever its content type.
fetch_url_text_any_type(got) ==
    IF got.kind = "exception" THEN None
    ELSE IF ~raise_for_status(got).ok THEN None
    ELSE Str(got.text)

\* fetch_url_text(url) when requests.get ends as `got`.
fetch_url_text(got) ==
    IF got.kind = "exception" THEN None
    ELSE IF ~raise_for_status(got).ok THEN None
    ELSE LET ctype == DictGet(got.headers, "Content-Type", Str("")).val.v
         IN  IF Contains(ctype, "text") \/ Contains(ctype, "json")
             THEN Str(got.text)
             ELSE None

\* Mutant of FallbackText: `if resume_text is None`.
FallbackIfNone(rt) == IF rt = None THEN Str(FALLBACK_TEXT) ELSE rt

\* Lines 118-119: `if not resume_text` replaces None and "" by the sentinel.
FallbackText(rt) == IF ~Truthy(rt) THEN Str(FALLBACK_TEXT) ELSE rt

\* (x or '')[:n]
OrEmptySlice(x, n) ==
    LET y == IF Truthy(x) THEN x ELSE Str("")
    IN  CASE y.t = "str"  -> Ok(Str(Slice(y.v, n)))
          [] y.t = "list" -> Ok(List(Slice(y.v, n)))
          [] y.t = "dict" -> Raise("TypeError", "unhashable type: 'slice'")
          [] OTHER -> Raise("TypeError",
                            "'" \o TypeName(y) \o "' object is not subscriptable")

\* The f-string of call_openai_match, as the fields it formats into the
\* fixed template, in order.
Prompt(rt, cid, cname, jid, jt, skills) ==
    LET r == OrEmptySlice(rt, ResumeLimit)
        j == OrEmptySlice(jt, JobLimit)
    IN  IF ~r.ok THEN r
        ELSE IF ~j.ok THEN j
        ELSE Ok([resume_text |-> PyStr(r.val),
                 candidate_id |-> PyStr(cid),
                 candidate_name |-> PyStr(cname),
                 job_id |-> PyStr(jid),
                 job_text |-> PyStr(j.val),
                 required_skills |-> PyStr(skills)])

\* payload of the POST
Payload(prompt) ==
    [model |-> MODEL,
     messages |-> <<[role |-> "system",
                     content |-> "You are a JSON-only resume->job matching assistant."],
                    [role |-> "user", content |-> prompt]>>,
     temperature |-> 0, max_tokens |-> 800]

\* Mutant of json_loads: text that does not parse is kept as a string.
json_loads_lenient(content) ==
    IF content.t = "str" /\ Loads(content.v, ModelDocs).ok
    THEN Loads(content.v, ModelDocs)
    ELSE Ok(content)

\* json.loads(text) of the message content.
json_loads(content) ==
    IF content.t = "str" THEN Loads(content.v, ModelDocs)
    ELSE Raise("TypeError", "the JSON object must be str, bytes or bytearray, not "
                            \o TypeName(content))

\* Lines 89-93 of call_openai_match when requests.post ends as `got`.
ReadCompletion(got) ==
    IF got.kind = "exception" THEN Raise(got.type, got.msg)
    ELSE IF ~raise_for_status(got).ok THEN raise_for_status(got)
    ELSE IF ~got.json.ok THEN got.json
    ELSE LET choices == Item(got.json.val, "choices") IN
         IF ~choices.ok THEN choices
    ELSE LET first == Index(choices.val, 0) IN
         IF ~first.ok THEN first
    ELSE LET message == Item(first.val, "message") IN
         IF ~message.ok THEN message
    ELSE LET content == Item(message.val, "content") IN
         IF ~content.ok THEN content
    ELSE json_loads(content.val)

\* call_openai_match(...): the prompt is built first; the POST happens only
\* when building it did not raise.
call_openai_match(rt, cid, cname, jid, jt, skills, got) ==
    LET prompt == Prompt(rt, cid, cname, jid, jt, skills)
    IN  IF ~prompt.ok THEN prompt ELSE ReadCompletion(got)

\* Mutant of AndStartsWith: `if x:` without the prefix test.
AndNothing(x, prefix) == Ok(Truthy(x))

\* x and x.startswith(prefix): falsy x short-circuits; only str has startswith.
AndStartsWith(x, prefix) ==
    IF ~Truthy(x) THEN Ok(FALSE)
    ELSE IF x.t = "str" THEN Ok(StartsWith(x.v, prefix))
    ELSE Raise("AttributeError",
               "'" \o TypeName(x) \o "' object has no attribute 'startswith'")

\* request.get_json(force=True): the body parsed whatever its content type;
\* text that is not JSON raises BadRequest.
get_json(data) ==
    LET parsed == Loads(data, BodyDocs)
    IN  IF parsed.ok THEN parsed
        ELSE Raise("BadRequest", "Failed to decode JSON object")

\* jsonify(value), status: a JSON response made by the handler.
jsonify(value, status) == [kind |-> "json", status |-> status, body |-> value]

\* An exception that leaves match(): the framework answers with an HTML error
\* page, 400 for BadRequest and 500 for any other exception.
Unhandled(exc) ==
    [kind |-> "html", status |-> IF exc.type = "BadRequest" THEN 400 ELSE 500,
     body |-> exc]

\* Mutant of ShapedId: the candidate_id of the model output is preferred.
ShapedIdFromModel(cid, mj) ==
    IF mj.t = "dict" /\ "candidate_id" \in DOMAIN mj.v THEN mj.v["candidate_id"] ELSE cid

\* Line 129: the candidate_id of the response is the one of the request.
ShapedId(cid, mj) == cid

\* Lines 128-134: the dict handed to jsonify.
Shape(cid, mj) ==
    LET m1 == DictGet(mj, "match", EmptyDict) IN
    IF ~m1.ok THEN m1
    ELSE LET score == DictGet(m1.val, "final_score", None) IN
    IF ~score.ok THEN score
    ELSE LET summary == DictGet(mj, "summary", None) IN
    IF ~summary.ok THEN summary
    ELSE LET m2 == DictGet(mj, "match", EmptyDict) IN
    IF ~m2.ok THEN m2
    ELSE LET skills == DictGet(m2.val, "matched_skills", List(<<>>)) IN
    IF ~skills.ok THEN skills
    ELSE Ok(Dict(("candidate_id" :> ShapedId(cid, mj))
                 @@ ("ai_fit_score" :> score.val)
                 @@ ("ai_summary" :> summary.val)
                 @@ ("ai_matched_skills" :> skills.val)
                 @@ ("raw_match" :> mj)))

(***************************************************************************)
(* The handler match(), one action per step                                *)
(***************************************************************************)
Init ==
    /\ OPENAI_KEY \in {None, Str("sk-test")}
    /\ pc = "ReceivedRequest"
    /\ request_data \in RequestData
    /\ body_read = FALSE
    /\ body = None
    /\ candidate_id = None /\ candidate_name = None /\ resume_url = None
    /\ job_id = None /\ job_text = None /\ required_skills = None
    /\ resume_text = None
    /\ io_log = <<>>
    /\ local_file = NoResponse
    /\ get_response = NoResponse
    /\ post_payload = None
    /\ post_response = NoResponse
    /\ match_json = None
    /\ response = NoResponse

\* Mutant of CheckCredential: the guard is missing.
CheckCredentialNoGuard ==
    /\ pc = "ReceivedRequest"
    /\ pc' = "CredentialChecked"
    /\ UNCHANGED <<OPENAI_KEY, request_data, body_read, body, candidate_id,
                   candidate_name, resume_url, job_id, job_text, required_skills,
                   resume_text, io_log, local_file, get_response, post_payload,
                   post_response, match_json, response>>

\* Lines 97-98: the entry guard.
CheckCredential ==
    /\ pc = "ReceivedRequest"
    /\ IF OPENAI_KEY = None
       THEN /\ response' = jsonify(Dict("error" :> Str("OPENAI_API_KEY not set on server")),
                                   500)
            /\ pc' = "ErrorResponse"
       ELSE /\ pc' = "CredentialChecked"
            /\ UNCHANGED response
    /\ UNCHANGED <<OPENAI_KEY, request_data, body_read, body, candidate_id,
                   candidate_name, resume_url, job_id, job_text, required_skills,
                   resume_text, io_log, local_file, get_response, post_payload,
                   post_response, match_json>>

\* Lines 100-106: the body is parsed and its fields read with their defaults.
ParseBody ==
    /\ pc = "CredentialChecked"
    /\ body_read' = TRUE
    /\ LET parsed == get_json(request_data)
           first == IF parsed.ok
                    THEN DictGet(parsed.val, "candidate_id", Str("unknown"))
                    ELSE parsed
       IN  IF ~first.ok
           THEN /\ response' = Unhandled(first.exc)
                /\ pc' = "Unhandled"
                /\ body' = IF parsed.ok THEN parsed.val ELSE body
                /\ UNCHANGED <<candidate_id, candidate_name, resume_url, job_id,
                               job_text, required_skills>>
           ELSE /\ body' = parsed.val
                /\ candidate_id' = first.val
                /\ candidate_name' = DictGet(parsed.val, "candidate_name", Str("")).val
                /\ resume_url' = DictGet(parsed.val, "resume_url", Str("")).val
                /\ job_id' = DictGet(parsed.val, "job_id", Str("JOB_000")).val
                /\ job_text' = DictGet(parsed.val, "job_text", Str("")).val
                /\ required_skills' = DictGet(parsed.val, "required_skills", List(<<>>)).val
                /\ pc' = "ParsedBody"
                /\ UNCHANGED response
    /\ UNCHANGED <<OPENAI_KEY, request_data, resume_text, io_log, local_file,
                   get_response, post_payload, post_response, match_json>>

\* Lines 109-111: the local read.
ReadLocal ==
    /\ pc = "ParsedBody"
    /\ LET local == AndStartsWith(resume_url, LOCAL_PREFIX)
       IN  IF ~local.ok
           THEN /\ response' = Unhandled(local.exc)
                /\ pc' = "Unhandled"
                /\ resume_text' = None
                /\ UNCHANGED <<io_log, local_file>>
           ELSE /\ pc' = "TriedLocal"
                /\ UNCHANGED response
                /\ IF local.val
                   THEN \E file \in FileStates :
                          /\ resume_text' = read_local_file_text(file)
                          /\ local_file' = file
                          /\ io_log' = io_log \o
                                (IF file.kind = "missing" THEN <<"exists">>
                                 ELSE <<"exists", "read_text">>)
                   ELSE /\ resume_text' = None
                        /\ UNCHANGED <<io_log, local_file>>
    /\ UNCHANGED <<OPENAI_KEY, request_data, body_read, body, candidate_id,
                   candidate_name, resume_url, job_id, job_text, required_skills,
                   get_response, post_payload, post_response, match_json>>

\* Lines 114-115: the fetch.
FetchUrl ==
    /\ pc = "TriedLocal"
    /\ LET remote == IF resume_text = None
                     THEN AndStartsWith(resume_url, HTTP_PREFIX)
                     ELSE Ok(FALSE)
       IN  IF ~remote.ok
           THEN /\ response' = Unhandled(remote.exc)
                /\ pc' = "Unhandled"
                /\ UNCHANGED <<resume_text, io_log, get_response>>
           ELSE /\ pc' = "TriedFetch"
                /\ UNCHANGED response
                /\ IF remote.val
                   THEN \E got \in GetOutcomes :
                          /\ resume_text' = fetch_url_text(got)
                          /\ get_response' = got
                          /\ io_log' = Append(io_log, "GET")
                   ELSE UNCHANGED <<resume_text, io_log, get_response>>
    /\ UNCHANGED <<OPENAI_KEY, request_data, body_read, body, candidate_id,
                   candidate_name, resume_url, job_id, job_text, required_skills,
                   local_file, post_payload, post_response, match_json>>

\* Lines 118-119: the fallback.
Fallback ==
    /\ pc = "TriedFetch"
    /\ resume_text' = FallbackText(resume_text)
    /\ pc' = "ResolvedText"
    /\ UNCHANGED <<OPENAI_KEY, request_data, body_read, body, candidate_id,
                   candidate_name, resume_url, job_id, job_text, required_skills,
                   io_log, local_file, get_response, post_payload, post_response,
                   match_json, response>>

\* Lines 122-125: the model call and its except clause.
CallModel ==
    /\ pc = "ResolvedText"
    /\ \E got \in PostOutcomes :
         LET prompt == Prompt(resume_text, candidate_id, candidate_name, job_id,
                              job_text, required_skills)
             result == call_openai_match(resume_text, candidate_id, candidate_name,
                                         job_id, job_text, required_skills, got)
         IN  /\ IF prompt.ok
                THEN /\ post_payload' = Payload(prompt.val)
                     /\ post_response' = got
                     /\ io_log' = Append(io_log, "POST")
                ELSE UNCHANGED <<post_payload, post_response, io_log>>
             /\ IF result.ok
                THEN /\ match_json' = result.val
                     /\ pc' = "CalledModel"
                     /\ UNCHANGED response
                ELSE /\ response' = jsonify(Dict(("error" :> Str("openai_error"))
                                                 @@ ("detail" :> Str(result.exc.msg))),
                                            500)
                     /\ pc' = "ErrorResponse"
                     /\ UNCHANGED match_json
    /\ UNCHANGED <<OPENAI_KEY, request_data, body_read, body, candidate_id,
                   candidate_name, resume_url, job_id, job_text, required_skills,
                   resume_text, local_file, get_response>>

\* Lines 128-135: the response is shaped and returned.
ShapeResponse ==
    /\ pc = "CalledModel"
    /\ LET out == Shape(candidate_id, match_json)
       IN  IF out.ok
           THEN /\ response' = jsonify(out.val, 200)
                /\ pc' = "ShapedResponse"
           ELSE /\ response' = Unhandled(out.exc)
                /\ pc' = "Unhandled"
    /\ UNCHANGED <<OPENAI_KEY, request_data, body_read, body, candidate_id,
                   candidate_name, resume_url, job_id, job_text, required_skills,
                   resume_text, io_log, local_file, get_response, post_payload,
                   post_response, match_json>>

Next ==
    \/ CheckCredential
    \/ ParseBody
    \/ ReadLocal
    \/ FetchUrl
    \/ Fallback
    \/ CallModel
    \/ ShapeResponse

Spec == Init /\ [][Next]_vars

(***************************************************************************)
(* call_openai_match called on its own: the handler stands at the model    *)
(* call with any resume text and job text as arguments, None and the empty *)
(* string included.                                                        *)
(***************************************************************************)
InitCall ==
    /\ OPENAI_KEY = Str("sk-test")
    /\ pc = "ResolvedText"
    /\ request_data = "{}"
    /\ body_read = TRUE
    /\ body = EmptyDict
    /\ candidate_id \in {Str("unknown"), Num(5)}
    /\ candidate_name = Str("")
    /\ resume_url = Str("")
    /\ job_id = Str("JOB_000")
    /\ job_text \in {None, Num(0), Num(7), Str("")} \cup {Str(t) : t \in JobTexts}
    /\ required_skills \in {List(<<>>), List(<<Str("Python"), Str("SQL")>>)}
    /\ resume_text \in {None, Str(FALLBACK_TEXT)} \cup {Str(t) : t \in ResumeTexts}
    /\ io_log = <<>>
    /\ local_file = NoResponse
    /\ get_response = NoResponse
    /\ post_payload = None
    /\ post_response = NoResponse
    /\ match_json = None
    /\ response = NoResponse

NextCall ==
    \/ CallModel
    \/ ShapeResponse

CallSpec == InitCall /\ [][NextCall]_vars

(***************************************************************************)
(* Properties                                                              *)
(***************************************************************************)
HasOp(op) == \E i \in 1..Len(io_log) : io_log[i] = op
Count(op) == Cardinality({i \in 1..Len(io_log) : io_log[i] = op})

\* The handler is past the Text Resolver: the resume text is the one handed
\* to the Match Requester.
Resolved ==
    \/ pc \in {"ResolvedText", "CalledModel", "ShapedResponse"}
    \/ pc = "ErrorResponse" /\ body_read
    \/ pc = "Unhandled" /\ post_response # NoResponse

\* The user message of the POST, when a POST was issued.
Posted == HasOp("POST")
Instruction == post_payload.messages[2].content

\* s begins with p, character by character.
HasPrefix(s, p) == \E n \in 0..Len(s) : SubSeq(s, 1, n) = p

\* The first n characters of s, the whole of s when it is shorter.
FirstChars(s, n) == IF Len(s) <= n THEN s ELSE SubSeq(s, 1, n)

\* The 500 response of the except clause.
OpenAiError ==
    /\ pc = "ErrorResponse"
    /\ response.kind = "json" /\ response.status = 500
    /\ DOMAIN response.body.v = {"error", "detail"}
    /\ response.body.v["error"] = Str("openai_error")
    /\ response.body.v["detail"].t = "str"

\* The candidate_id of the request: the field of the body, or its default.
RequestCandidateId ==
    IF "candidate_id" \in DOMAIN body.v THEN body.v["candidate_id"] ELSE Str("unknown")

\* C1: with no credential configured the request ends in a 500 error response,
\* and the body is never read, no file is touched, no GET and no POST issued.
C1_NoCredentialShortCircuits ==
    OPENAI_KEY = None =>
        /\ pc \in {"ReceivedRequest", "ErrorResponse"}
        /\ ~body_read
        /\ io_log = <<>>
        /\ local_file = NoResponse /\ get_response = NoResponse
        /\ post_payload = None /\ post_response = NoResponse
        /\ pc = "ErrorResponse" =>
              /\ response.kind = "json" /\ response.status = 500
              /\ "error" \in DOMAIN response.body.v

C1_Witness ==
    /\ OPENAI_KEY = None
    /\ pc = "ErrorResponse"
    /\ \E d \in ObjectBodies :
          /\ "resume_url" \in DOMAIN d.v
          /\ d.v["resume_url"] = Str("http://host/cv")
          /\ request_data = Dump(d)

\* The provider's answer has choices[0].message.content.
HasContent(e) ==
    /\ e.t = "dict" /\ "choices" \in DOMAIN e.v
    /\ e.v["choices"].t = "list" /\ Len(e.v["choices"].v) >= 1
    /\ e.v["choices"].v[1].t = "dict" /\ "message" \in DOMAIN e.v["choices"].v[1].v
    /\ e.v["choices"].v[1].v["message"].t = "dict"
    /\ "content" \in DOMAIN e.v["choices"].v[1].v["message"].v
ContentOf(e) == e.v["choices"].v[1].v["message"].v["content"]

\* The POST failed in one of the ways the claim lists, `bad` being the
\* statuses that count as a failure.
PostFailed(bad) ==
    \/ post_response.kind = "exception"
    \/ /\ post_response.kind = "response"
       /\ \/ post_response.status \in bad
          \/ ~post_response.json.ok
          \/ ~HasContent(post_response.json.val)
          \/ ContentOf(post_response.json.val).t # "str"
          \/ ContentOf(post_response.json.val).v \notin {Dump(d) : d \in ModelDocs}

FailureIsOpenAiError(bad) ==
    PostFailed(bad) =>
        /\ OpenAiError
        /\ post_response.kind = "exception" =>
              response.body.v["detail"] = Str(post_response.msg)
        /\ match_json = None

\* C2 as claimed: a transport error, a non-2xx status, a response without
\* choices[0].message.content or content that is not JSON ends in the 500
\* openai_error response with the failure message as detail, never in a 200.
C2_AnyNon2xxIsOpenAiError == FailureIsOpenAiError((100..199) \cup (300..599))

\* C2 as amended: the same with a 4xx or 5xx status as the failing statuses.
C2_FailureIsOpenAiError == FailureIsOpenAiError(400..599)

C2_Witness ==
    /\ pc = "ErrorResponse"
    /\ post_response.kind = "response" /\ post_response.status = 200
    /\ post_response.json.ok /\ HasContent(post_response.json.val)
    /\ ContentOf(post_response.json.val) = Str("Sorry, I cannot help with that.")
    /\ response.status = 500

\* C3: for a well-formed MatchResult the 200 response carries final_score,
\* summary and matched_skills of the result, the result itself as raw_match,
\* and the candidate_id of the request.
C3_ShapedFields ==
    (match_json \in WellFormed /\ pc # "CalledModel") =>
        /\ pc = "ShapedResponse"
        /\ response.kind = "json" /\ response.status = 200
        /\ response.body.v["ai_fit_score"] = match_json.v["match"].v["final_score"]
        /\ response.body.v["ai_summary"] = match_json.v["summary"]
        /\ response.body.v["ai_matched_skills"] = match_json.v["match"].v["matched_skills"]
        /\ response.body.v["raw_match"] = match_json
        /\ response.body.v["candidate_id"] = RequestCandidateId

C3_Witness ==
    /\ pc = "ShapedResponse"
    /\ match_json \in WellFormed
    /\ "candidate_id" \in DOMAIN match_json.v
    /\ RequestCandidateId = Str("C1")
    /\ match_json.v["candidate_id"] # RequestCandidateId

\* C4: shaping never raises, whatever value the model call returned, and a
\* result without the match key gives an absent score and no matched skills.
C4_ShaperNeverFails ==
    /\ pc = "Unhandled" => post_response = NoResponse
    /\ (pc = "ShapedResponse" /\ match_json.t = "dict"
            /\ "match" \notin DOMAIN match_json.v) =>
          /\ response.body.v["ai_fit_score"] = None
          /\ response.body.v["ai_matched_skills"] = List(<<>>)

\* The resume_url of the request is a string with neither prefix.
Unrecognized ==
    /\ resume_url.t = "str"
    /\ ~HasPrefix(resume_url.v, "/mnt/data")
    /\ ~HasPrefix(resume_url.v, "http")

\* C5: a resume_url with neither the local prefix nor "http" causes no file
\* access and no GET, and the Match Requester gets the fallback sentinel.
C5_UnrecognizedUrlFallsBack ==
    Unrecognized =>
        /\ local_file = NoResponse /\ get_response = NoResponse
        /\ ~HasOp("exists") /\ ~HasOp("read_text") /\ ~HasOp("GET")
        /\ Resolved => resume_text = Str(FALLBACK_TEXT)
        /\ Posted => Instruction.resume_text = FALLBACK_TEXT

C5_Witness ==
    /\ pc = "CalledModel"
    /\ resume_url = Str("htt")
    /\ Posted

\* The content types of the model that declare text or JSON.
TextualTypes == {Str("text/plain; charset=utf-8"), Str("application/json")}
DeclaredType ==
    IF "Content-Type" \in DOMAIN get_response.headers.v
    THEN get_response.headers.v["Content-Type"]
    ELSE Absent

\* C6: after a GET answered 2xx the resume text is the body only if the
\* declared content type is textual or JSON; any other or a missing content
\* type gives the fallback sentinel.
C6_ContentTypeGate ==
    (Resolved /\ get_response.kind = "response" /\ get_response.status \in 200..299) =>
        /\ resume_text # Str(FALLBACK_TEXT) =>
              /\ DeclaredType \in TextualTypes
              /\ resume_text = Str(get_response.text)
        /\ DeclaredType \notin TextualTypes => resume_text = Str(FALLBACK_TEXT)

C6_Witness ==
    /\ pc = "ResolvedText"
    /\ get_response.kind = "response" /\ get_response.status = 200
    /\ DeclaredType = Str("application/pdf")
    /\ get_response.text = "Python developer, 5 years"
    /\ resume_text = Str(FALLBACK_TEXT)

\* The resolution failed: the local path is missing or unreadable, or the GET
\* raised or was answered with a status in `bad`.
ResolutionFailed(bad) ==
    \/ local_file.kind \in {"missing", "unreadable"}
    \/ get_response.kind = "exception"
    \/ get_response.kind = "response" /\ get_response.status \in bad

ResolverDegrades(bad) ==
    resume_url.t = "str" =>
        /\ pc = "Unhandled" => post_response # NoResponse
        /\ pc = "ErrorResponse" => OpenAiError
        /\ Resolved =>
              /\ resume_text.t = "str" /\ Len(resume_text.v) > 0
              /\ ResolutionFailed(bad) => resume_text = Str(FALLBACK_TEXT)
              /\ Posted => Len(Instruction.resume_text) > 0

\* C7 as claimed: for a string resume_url the resolver never raises, a failed
\* local read or a failed fetch (error, timeout, non-2xx status) gives the
\* sentinel, the handler goes on to the model call and the resume text is a
\* non-empty string.
C7_AnyNon2xxDegrades == ResolverDegrades((100..199) \cup (300..599))

\* C7 as amended: the same with a 4xx or 5xx status as the failing statuses.
C7_ResolverDegrades == ResolverDegrades(400..599)

C7_Witness ==
    /\ pc = "CalledModel"
    /\ get_response.kind = "response" /\ get_response.status = 404
    /\ resume_text = Str(FALLBACK_TEXT)

\* C8: the instruction embeds the first 4000 characters of the resume text
\* and the first 2000 characters of the job text, nothing past them, and a
\* null text as the empty string.
C8_Truncation ==
    Posted =>
        /\ resume_text.t = "str" =>
              Instruction.resume_text = FirstChars(resume_text.v, ResumeLimit)
        /\ Len(Instruction.resume_text) <= ResumeLimit
        /\ resume_text = None => Instruction.resume_text = ""
        /\ job_text.t = "str" =>
              /\ Instruction.job_text = FirstChars(job_text.v, JobLimit)
              /\ Len(Instruction.job_text) <= JobLimit
        /\ job_text = None => Instruction.job_text = ""

C8_Witness ==
    /\ Posted
    /\ resume_text.t = "str" /\ Len(resume_text.v) > ResumeLimit
    /\ job_text.t = "str" /\ Len(job_text.v) > JobLimit
    /\ Len(Instruction.resume_text) = ResumeLimit
    /\ Len(Instruction.job_text) = JobLimit

\* C9: a request ends in one of two outcomes only, the shaped 200 response or
\* a single structured error object; no failure leaves the handler uncaught.
C9_TwoOutcomes ==
    /\ pc # "Unhandled"
    /\ response # NoResponse =>
          /\ pc \in {"ShapedResponse", "ErrorResponse"}
          /\ response.kind = "json"
          /\ pc = "ShapedResponse" => response.status = 200
          /\ pc = "ErrorResponse" =>
                response.status = 500 /\ "error" \in DOMAIN response.body.v

\* C10: at most one resolution I/O (a local read or a GET, never both) and
\* at most one POST, issued after resolution and never retried; a failed POST
\* ends the request with the error response.
C10_SingleIO ==
    /\ Count("exists") <= 1 /\ Count("read_text") <= 1 /\ Count("GET") <= 1
    /\ Count("exists") + Count("GET") <= 1
    /\ Count("POST") <= 1
    /\ Posted => io_log[Len(io_log)] = "POST" /\ Resolved /\ pc # "ResolvedText"
    /\ (\/ post_response.kind = "exception"
        \/ post_response.kind = "response" /\ post_response.status \in 400..599) =>
          /\ pc = "ErrorResponse"
          /\ response.status = 500

C10_Witness ==
    /\ io_log = <<"GET", "POST">>
    /\ get_response.kind = "exception"
    /\ post_response.kind = "exception"
    /\ pc = "ErrorResponse"

====
